---- MODULE Spec2Model ----
(***************************************************************************)
(* WeatherArena backend: the tile path (routers/tiles.py get_tile), the    *)
(* point-forecast path (routers/data.py, WeatherService.get_forecast) and  *)
(* the process-wide grid cache GRID_CACHE they share through               *)
(* WeatherService.get_model_grid (services/weather.py).                    *)
(*                                                                         *)
(* Scheduling.  Every route is an `async def` run by the one event-loop    *)
(* thread of the process.  get_tile and get_model_grid contain no          *)
(* suspension point (Herbie, matplotlib and requests are called            *)
(* synchronously; weather.py:113 "This is a blocking operation"), so a     *)
(* handler that has started keeps the event loop until it has produced its *)
(* response.  `loop` is the request whose coroutine holds the thread.      *)
(* The handler is still split at its calls into external code (Herbie,     *)
(* the renderer), whose outcomes and durations the program does not        *)
(* control.                                                                *)
(*                                                                         *)
(* Temperatures are fixed-point hundredths of a degree (273.15 = 27315).   *)
(***************************************************************************)
EXTENDS Integers, Sequences, FiniteSets, TLC

\* Number of client requests of one run of the model.
NumReqs == 2

Reqs == 1 .. NumReqs

\* Python None as a value of Optional[xr.Dataset].
None == [isNone |-> TRUE, data_vars |-> <<>>]

Dataset(fields) == [isNone |-> FALSE, data_vars |-> fields]

\* No DataArray selected yet.
NoVar == [name |-> "", values |-> <<>>]

\* Model names a request may carry in its path or query.
HerbieModels == {"gfs", "hrrr"}

\* Grids the upstream source may hold as "latest" run of a model.
GfsRunA == Dataset(<<[name |-> "t2m", values |-> <<28000, 30000>>]>>)
GfsRunB == Dataset(<<[name |-> "t2m", values |-> <<27000, 29000>>]>>)
HrrrRunA == Dataset(<<[name |-> "prmsl", values |-> <<101300, 101500>>],
                      [name |-> "t", values |-> <<1500, 2500>>]>>)
HrrrRunB == Dataset(<<[name |-> "unknown", values |-> <<500, 700>>]>>)

LatestGrids(model) ==
  IF model = "gfs" THEN {GfsRunA, GfsRunB} ELSE {HrrrRunA, HrrrRunB}

\* key = f"{model}_latest"
Key(model) == model \o "_latest"

Keys == {Key(m) : m \in HerbieModels}

\* 2**zoom, for zoom >= 0
RECURSIVE Pow2(_)
Pow2(n) == IF n <= 0 THEN 1 ELSE 2 * Pow2(n - 1)

\* Tile coordinates clients send: in range, x past the right edge, negative
\* y, negative zoom.
TileSamples == {<<0, 0, 0>>, <<1, 1, 0>>, <<1, 2, 0>>, <<1, 0, -1>>, <<-1, 0, 0>>}

NoResp == [status |-> 0, media |-> "", detail |-> "", data |-> <<>>]

\* generate_tile's locals before they are assigned: bounds (tile_bounds), the
\* size of the PNG savefig wrote, the image returned.
NoBounds == [minx |-> 0, miny |-> 0, maxx |-> 0, maxy |-> 0]
NoCanvas == <<0, 0>>
NoImg == [size |-> <<0, 0>>, data |-> <<>>, bounds |-> NoBounds]

\* how, outcome and did are history: hit or miss of the cache, how the fetch
\* ended, and which of the steps resolve, normalize, render the handler ran.
IdleReq ==
  [pc |-> "idle", kind |-> "", model |-> "", z |-> 0, x |-> 0, y |-> 0,
   lat |-> 1, ds |-> None, var |-> NoVar, resp |-> NoResp,
   bounds |-> NoBounds, canvas |-> NoCanvas, img |-> NoImg,
   how |-> "", outcome |-> "", did |-> {}]

VARIABLES
  GRID_CACHE,  \* weather.py:15, key -> dataset (or None)
  loop,        \* request whose coroutine runs on the event-loop thread, 0 if none
  req,         \* per request: position, arguments and locals of its handler
  nFetch,      \* history: Herbie invocations per key
  fetched,     \* history: values H.xarray returned per key
  okAt,        \* history: nFetch[key] when the entry of key was first stored, else 0
  plots        \* history: what generate_tile did with each input it was given

vars == <<GRID_CACHE, loop, req, nFetch, fetched, okAt, plots>>

Init ==
  /\ GRID_CACHE = <<>>
  /\ loop = 0
  /\ req = [r \in Reqs |-> IdleReq]
  /\ nFetch = [k \in Keys |-> 0]
  /\ fetched = [k \in Keys |-> {}]
  /\ okAt = [k \in Keys |-> 0]
  /\ plots = <<>>

\* Variant: the cache is never consulted.
CachedNever(key) == FALSE

Cached(key) == key \in DOMAIN GRID_CACHE

\* Variant: only part of the fetched dataset is kept.
CacheStorePartial(cache, key, ds) ==
  [k \in (DOMAIN cache) \cup {key} |->
     IF k # key THEN cache[k]
     ELSE IF ds.data_vars = <<>> THEN ds ELSE Dataset(Tail(ds.data_vars))]

\* Variant: GRID_CACHE = {key: ds}, the dictionary is replaced.
CacheStoreReplace(cache, key, ds) == [k \in {key} |-> ds]

\* GRID_CACHE[key] = ds
CacheStore(cache, key, ds) ==
  [k \in (DOMAIN cache) \cup {key} |-> IF k = key THEN ds ELSE cache[k]]

\* Variant: handlers run on a pool of threads, none waits for another.
LoopFreeAlways == TRUE

\* The event-loop thread is free: no coroutine is between its start and its
\* response (no handler awaits anything that suspends it).
LoopFree == loop = 0

\* Variant: the None check is missing.
IsNoneUnchecked(ds) == FALSE

\* `if ds is None` (tiles.py:14, weather.py:84)
IsNone(ds) == ds.isNone

Names(ds) == {ds.data_vars[i].name : i \in 1 .. Len(ds.data_vars)}

Field(ds, name) ==
  ds.data_vars[CHOOSE i \in 1 .. Len(ds.data_vars) : ds.data_vars[i].name = name]

Set(r, rec) == [req EXCEPT ![r] = rec]

Respond(status, media, detail, data) ==
  [status |-> status, media |-> media, detail |-> detail, data |-> data]

\* An exception no handler catches: Starlette answers 500.
Unhandled == Respond(500, "text/plain", "Internal Server Error", <<>>)

\* A client sends GET /tiles/{model}/{z}/{x}/{y}.png
ArriveTile(r, model, t) ==
  /\ req[r].pc = "idle"
  /\ req' = Set(r, [IdleReq EXCEPT !.pc = "pending", !.kind = "tile",
                      !.model = model, !.z = t[1], !.x = t[2], !.y = t[3]])
  /\ UNCHANGED <<GRID_CACHE, loop, nFetch, fetched, okAt, plots>>

\* A client sends GET /data/forecast?lat=..&lon=..&model=..
ArriveForecast(r, model, lat) ==
  /\ req[r].pc = "idle"
  /\ req' = Set(r, [IdleReq EXCEPT !.pc = "pending", !.kind = "forecast",
                      !.model = model, !.lat = lat])
  /\ UNCHANGED <<GRID_CACHE, loop, nFetch, fetched, okAt, plots>>

\* The handler reaches get_model_grid: tiles always, forecasts for a Herbie model.
CallsGrid(r) ==
  \/ req[r].kind = "tile"
  \/ req[r].kind = "forecast" /\ req[r].model \in HerbieModels

\* Variant: return GRID_CACHE.pop(key)
get_model_grid_hit_pop(r) ==
  /\ req[r].pc = "pending" /\ CallsGrid(r)
  /\ LoopFree
  /\ Cached(Key(req[r].model))
  /\ loop' = r
  /\ req' = Set(r, [req[r] EXCEPT !.pc = "grid", !.how = "hit",
                      !.ds = GRID_CACHE[Key(req[r].model)]])
  /\ GRID_CACHE' = [k \in (DOMAIN GRID_CACHE) \ {Key(req[r].model)} |-> GRID_CACHE[k]]
  /\ UNCHANGED <<nFetch, fetched, okAt, plots>>

\* get_model_grid, cache hit: `if key in GRID_CACHE: return GRID_CACHE[key]`
get_model_grid_hit(r) ==
  /\ req[r].pc = "pending" /\ CallsGrid(r)
  /\ LoopFree
  /\ Cached(Key(req[r].model))
  /\ loop' = r
  /\ req' = Set(r, [req[r] EXCEPT !.pc = "grid", !.how = "hit",
                      !.ds = GRID_CACHE[Key(req[r].model)]])
  /\ UNCHANGED <<GRID_CACHE, nFetch, fetched, okAt, plots>>

\* get_model_grid, cache miss: Herbie(...) and H.xarray(...) are entered.
get_model_grid_miss(r) ==
  /\ req[r].pc = "pending" /\ CallsGrid(r)
  /\ LoopFree
  /\ ~Cached(Key(req[r].model))
  /\ loop' = r
  /\ req' = Set(r, [req[r] EXCEPT !.pc = "fetching", !.how = "miss"])
  /\ nFetch' = [nFetch EXCEPT ![Key(req[r].model)] = @ + 1]
  /\ UNCHANGED <<GRID_CACHE, fetched, okAt, plots>>

\* H.xarray returns `ds`: GRID_CACHE[key] = ds; return ds
xarray_returns(r, ds) ==
  /\ req[r].pc = "fetching"
  /\ GRID_CACHE' = CacheStore(GRID_CACHE, Key(req[r].model), ds)
  /\ fetched' = [fetched EXCEPT ![Key(req[r].model)] = @ \cup {ds}]
  /\ okAt' = [okAt EXCEPT ![Key(req[r].model)] =
                 IF @ = 0 THEN nFetch[Key(req[r].model)] ELSE @]
  /\ req' = Set(r, [req[r] EXCEPT !.pc = "grid", !.ds = ds, !.outcome = "returned"])
  /\ UNCHANGED <<loop, nFetch, plots>>

\* Variant: the except branch also records the failure in the cache.
xarray_raises_cached(r) ==
  /\ req[r].pc = "fetching"
  /\ GRID_CACHE' = CacheStore(GRID_CACHE, Key(req[r].model), None)
  /\ req' = Set(r, [req[r] EXCEPT !.pc = "grid", !.ds = None, !.outcome = "raised"])
  /\ UNCHANGED <<loop, nFetch, fetched, okAt, plots>>

\* Herbie(...) or H.xarray(...) raises: logged, return None
xarray_raises(r) ==
  /\ req[r].pc = "fetching"
  /\ req' = Set(r, [req[r] EXCEPT !.pc = "grid", !.ds = None, !.outcome = "raised"])
  /\ UNCHANGED <<GRID_CACHE, loop, nFetch, fetched, okAt, plots>>

\* Variant: on None the handler calls get_model_grid again instead of answering.
get_tile_404_retry(r) ==
  /\ req[r].pc = "grid" /\ req[r].kind = "tile"
  /\ IsNone(req[r].ds)
  /\ req' = Set(r, [req[r] EXCEPT !.pc = "fetching"])
  /\ UNCHANGED <<GRID_CACHE, loop, nFetch, fetched, okAt, plots>>

\* get_tile: `if ds is None: raise HTTPException(404)`
get_tile_404(r) ==
  /\ req[r].pc = "grid" /\ req[r].kind = "tile"
  /\ IsNone(req[r].ds)
  /\ req' = Set(r, [req[r] EXCEPT !.pc = "done",
                      !.resp = Respond(404, "application/json", "Model data not found", <<>>)])
  /\ loop' = 0
  /\ UNCHANGED <<GRID_CACHE, nFetch, fetched, okAt, plots>>

\* Variant: the first declared field that bears an alias, in the dataset's order.
ResolveFieldDeclared(ds) ==
  LET hits == {i \in 1 .. Len(ds.data_vars) :
                 ds.data_vars[i].name \in {"t2m", "t", "tmp", "2t"}}
  IN IF hits = {} THEN ds.data_vars[1]
     ELSE ds.data_vars[CHOOSE i \in hits : \A j \in hits : i <= j]

\* Step 2 of get_tile: the first alias present, else the first declared field.
ResolveField(ds) ==
  IF "t2m" \in Names(ds) THEN Field(ds, "t2m")
  ELSE IF "t" \in Names(ds) THEN Field(ds, "t")
  ELSE IF "tmp" \in Names(ds) THEN Field(ds, "tmp")
  ELSE IF "2t" \in Names(ds) THEN Field(ds, "2t")
  ELSE ds.data_vars[1]

\* Variant: without the fallback to the first declared field.
ResolveRaisesNoFallback(ds) ==
  \/ ds.isNone
  \/ Names(ds) \cap {"t2m", "t", "tmp", "2t"} = {}

\* `v in ds` on None raises TypeError, list(ds.data_vars)[0] on a dataset
\* without fields raises IndexError; both outside the try block.
ResolveRaises(ds) ==
  \/ ds.isNone
  \/ Names(ds) \cap {"t2m", "t", "tmp", "2t"} = {} /\ Len(ds.data_vars) = 0

get_tile_resolve(r) ==
  /\ req[r].pc = "grid" /\ req[r].kind = "tile"
  /\ ~IsNone(req[r].ds)
  /\ IF ResolveRaises(req[r].ds)
     THEN /\ req' = Set(r, [req[r] EXCEPT !.pc = "done", !.resp = Unhandled,
                              !.did = @ \cup {"resolve"}])
          /\ loop' = 0
     ELSE /\ req' = Set(r, [req[r] EXCEPT !.pc = "resolved",
                              !.var = ResolveField(req[r].ds),
                              !.did = @ \cup {"resolve"}])
          /\ loop' = loop
  /\ UNCHANGED <<GRID_CACHE, nFetch, fetched, okAt, plots>>

RECURSIVE Sum(_)
Sum(s) == IF s = <<>> THEN 0 ELSE Head(s) + Sum(Tail(s))

\* Variant: var.mean() >= 200
MeanAtLeast200(values) == Sum(values) >= 20000 * Len(values)

\* var.mean() > 200, in hundredths and without the division
MeanAbove200(values) == Sum(values) > 20000 * Len(values)

\* var - 273.15: a new array
Minus27315(values) == [i \in 1 .. Len(values) |-> values[i] - 27315]

\* Variant: `var -= 273.15`, which writes the array the cached dataset holds.
get_tile_convert_inplace(r) ==
  /\ req[r].pc = "resolved"
  /\ LET new == IF MeanAbove200(req[r].var.values)
                THEN [req[r].var EXCEPT !.values = Minus27315(@)]
                ELSE req[r].var
         key == Key(req[r].model)
         old == GRID_CACHE[key]
     IN /\ req' = Set(r, [req[r] EXCEPT !.pc = "converted", !.var = new,
                             !.did = @ \cup {"normalize"}])
        /\ GRID_CACHE' = [GRID_CACHE EXCEPT ![key] =
              Dataset([i \in 1 .. Len(old.data_vars) |->
                         IF old.data_vars[i].name = new.name THEN new
                         ELSE old.data_vars[i]])]
  /\ UNCHANGED <<loop, nFetch, fetched, okAt, plots>>

\* Step 3 of get_tile, first half: the Kelvin heuristic.  `var = var - 273.15`
\* rebinds the handler's local; the array inside the dataset is not written.
get_tile_convert(r) ==
  /\ req[r].pc = "resolved"
  /\ req' = Set(r, [req[r] EXCEPT !.pc = "converted",
                      !.var = IF MeanAbove200(@.values)
                              THEN [@ EXCEPT !.values = Minus27315(@)]
                              ELSE @,
                      !.did = @ \cup {"normalize"}])
  /\ UNCHANGED <<GRID_CACHE, loop, nFetch, fetched, okAt, plots>>

(***************************************************************************)
(* Tile arithmetic (services/tiles.py:70-85).  Python floats carry 53       *)
(* significant bits; the floats of the model carry Precision of them, and   *)
(* every operation rounds its exact result to the nearest such number, ties *)
(* to even, as IEEE 754 does.  At zoom z all quantities are whole multiples *)
(* of one unit, 2**-(z+8) times the weight of the lowest bit of the float   *)
(* 2*pi*6378137, and are held as integers in that unit.                     *)
(***************************************************************************)

\* Significant bits of a float.
Precision == 4

\* 2 * math.pi * 6378137, in whole metres
EarthCircumference == 40075017

RECURSIVE BitLen(_)
BitLen(n) == IF n = 0 THEN 0 ELSE 1 + BitLen(n \div 2)

\* The float nearest to the natural number n.
RoundNat(n) ==
  LET b == BitLen(n)
  IN IF b <= Precision THEN n
     ELSE LET ulp == Pow2(b - Precision)
              q == n \div ulp
              rest == n % ulp
              up == 2 * rest > ulp \/ (2 * rest = ulp /\ q % 2 = 1)
          IN (IF up THEN q + 1 ELSE q) * ulp

\* The float nearest to the integer n (n is evaluated once, as v).
Float(n) ==
  CHOOSE f \in {IF v < 0 THEN 0 - RoundNat(0 - v) ELSE RoundNat(v) : v \in {n}} : TRUE

\* The significand of the float 2*pi*6378137, which is `res` in units.
Res == RoundNat(EarthCircumference) \div Pow2(BitLen(EarthCircumference) - Precision)

\* origin_shift = 2*pi*6378137 / 2.0 in units: res * 256 * 2**zoom / 2
OriginShift(zoom) == Res * Pow2(zoom + 7)

\* Variant: origin_shift = 2*pi*6378137, not halved.
pixels_to_meters_whole(px, py, zoom) ==
  [mx |-> Float(Float(Float(px) * Res) - 2 * OriginShift(zoom)),
   my |-> Float(2 * OriginShift(zoom) - Float(Float(py) * Res))]

\* mx = px * res - origin_shift; my = origin_shift - py * res
pixels_to_meters(px, py, zoom) ==
  [mx |-> Float(Float(Float(px) * Res) - OriginShift(zoom)),
   my |-> Float(OriginShift(zoom) - Float(Float(py) * Res))]

\* Variant: the far corner is the tile's last pixel, (tx+1)*256 - 1.
tile_bounds_lastpixel(tx, ty, zoom) ==
  LET nw == pixels_to_meters(tx * 256, ty * 256, zoom)
      se == pixels_to_meters((tx + 1) * 256 - 1, (ty + 1) * 256 - 1, zoom)
  IN [minx |-> nw.mx, miny |-> se.my, maxx |-> se.mx, maxy |-> nw.my]

\* (minx, miny, maxx, maxy) of tile (tx, ty) at zoom
tile_bounds(tx, ty, zoom) ==
  LET nw == pixels_to_meters(tx * 256, ty * 256, zoom)
      se == pixels_to_meters((tx + 1) * 256, (ty + 1) * 256, zoom)
  IN [minx |-> nw.mx, miny |-> se.my, maxx |-> se.mx, maxy |-> nw.my]

\* Sizes of the PNG savefig writes: figsize 2.56in at dpi 100, cropped by
\* bbox_inches='tight'.
NativeSizes == {<<256, 256>>, <<247, 256>>}

\* Variant: the buffer savefig wrote is returned as it is.
ResizeSkipped(canvas) == canvas

\* image.resize((256, 256), Image.Resampling.LANCZOS)
Resize(canvas) == <<256, 256>>

\* What generate_tile is called with.
TileInput(r) == <<req[r].var, req[r].z, req[r].x, req[r].y>>

\* generate_tile reads nothing but its arguments: called again with the same
\* ones it does what it did before.
PlotAllows(input, outcome) == input \in DOMAIN plots => plots[input] = outcome

PlotRecord(input, outcome) ==
  [i \in (DOMAIN plots) \cup {input} |-> IF i = input THEN outcome ELSE plots[i]]

\* Variant: detail=str(e), as the other routers answer.
TileGenerationFailedStr == Respond(500, "application/json", "savefig: error", <<>>)

\* except Exception: raise HTTPException(500, "Tile generation failed")
TileGenerationFailed == Respond(500, "application/json", "Tile generation failed", <<>>)

\* generate_tile returns the PNG bytes: the field drawn over the tile's bounds
\* on a canvas, resized, encoded.  Response(content=img_bytes, image/png)
generate_tile_returns(r, canvas) ==
  /\ req[r].pc = "converted"
  /\ PlotAllows(TileInput(r), canvas)
  /\ LET bounds == tile_bounds(req[r].x, req[r].y, req[r].z)
     IN req' = Set(r, [req[r] EXCEPT !.pc = "done",
                         !.bounds = bounds, !.canvas = canvas,
                         !.img = [size |-> Resize(canvas), data |-> req[r].var.values,
                                  bounds |-> bounds],
                         !.resp = Respond(200, "image/png", "", <<>>),
                         !.did = @ \cup {"render"}])
  /\ plots' = PlotRecord(TileInput(r), canvas)
  /\ loop' = 0
  /\ UNCHANGED <<GRID_CACHE, nFetch, fetched, okAt>>

\* generate_tile raises while drawing: HTTPException(500, "Tile generation failed")
generate_tile_raises(r) ==
  /\ req[r].pc = "converted"
  /\ PlotAllows(TileInput(r), NoCanvas)
  /\ req' = Set(r, [req[r] EXCEPT !.pc = "done",
                      !.bounds = tile_bounds(req[r].x, req[r].y, req[r].z),
                      !.resp = TileGenerationFailed,
                      !.did = @ \cup {"render"}])
  /\ plots' = PlotRecord(TileInput(r), NoCanvas)
  /\ loop' = 0
  /\ UNCHANGED <<GRID_CACHE, nFetch, fetched, okAt>>

\* Models get_forecast is asked for: the Herbie ones, Open-Meteo, an unknown name.
ForecastModels == HerbieModels \cup {"openmeteo", "ecmwf"}

\* ds.t2m.sel(latitude=lat, longitude=lon, method="nearest"): the request's
\* coordinates, given as the index of the grid point nearest to them.
GridPoints == {1, 2}

\* _get_herbie_point after get_model_grid: {} without a grid or without 't2m',
\* else the nearest value, Kelvin values (> 200) minus 273.15.
HerbiePoint(ds, lat) ==
  IF ds.isNone THEN <<>>
  ELSE IF "t2m" \notin Names(ds) THEN <<>>
  ELSE LET val == Field(ds, "t2m").values[lat]
       IN <<IF val > 20000 THEN val - 27315 ELSE val>>

\* A dict the forecast service returns, as a value of Optional[dict].
Dict(items) == [isNone |-> FALSE, items |-> items]

\* routers/data.py get_forecast: 504 only for data None, else 200 with the dict.
ForecastResponse(data) ==
  IF data.isNone
  THEN Respond(504, "application/json", "Upstream service failed", <<>>)
  ELSE Respond(200, "application/json", "", data.items)

get_herbie_point(r) ==
  /\ req[r].pc = "grid" /\ req[r].kind = "forecast"
  /\ req' = Set(r, [req[r] EXCEPT !.pc = "done",
                      !.resp = ForecastResponse(Dict(HerbiePoint(req[r].ds, req[r].lat)))])
  /\ loop' = 0
  /\ UNCHANGED <<GRID_CACHE, nFetch, fetched, okAt, plots>>

\* get_forecast with model == "openmeteo": requests.get(..., timeout=10) is entered.
get_openmeteo_forecast(r) ==
  /\ req[r].pc = "pending" /\ req[r].kind = "forecast" /\ req[r].model = "openmeteo"
  /\ LoopFree
  /\ loop' = r
  /\ req' = Set(r, [req[r] EXCEPT !.pc = "openmeteo"])
  /\ UNCHANGED <<GRID_CACHE, nFetch, fetched, okAt, plots>>

\* Open-Meteo answers: the "current" temperature.
openmeteo_returns(r, temp) ==
  /\ req[r].pc = "openmeteo"
  /\ req' = Set(r, [req[r] EXCEPT !.pc = "done", !.resp = ForecastResponse(Dict(<<temp>>))])
  /\ loop' = 0
  /\ UNCHANGED <<GRID_CACHE, nFetch, fetched, okAt, plots>>

\* requests.get raises (timeout, HTTP error): logged, return {}
openmeteo_raises(r) ==
  /\ req[r].pc = "openmeteo"
  /\ req' = Set(r, [req[r] EXCEPT !.pc = "done", !.resp = ForecastResponse(Dict(<<>>))])
  /\ loop' = 0
  /\ UNCHANGED <<GRID_CACHE, nFetch, fetched, okAt, plots>>

\* get_forecast with any other model: raise ValueError, caught by nothing.
get_forecast_unknown(r) ==
  /\ req[r].pc = "pending" /\ req[r].kind = "forecast"
  /\ req[r].model \notin HerbieModels \cup {"openmeteo"}
  /\ LoopFree
  /\ req' = Set(r, [req[r] EXCEPT !.pc = "done", !.resp = Unhandled])
  /\ UNCHANGED <<GRID_CACHE, loop, nFetch, fetched, okAt, plots>>

Next ==
  \/ \E r \in Reqs, m \in HerbieModels, t \in TileSamples : ArriveTile(r, m, t)
  \/ \E r \in Reqs, m \in ForecastModels, lat \in GridPoints : ArriveForecast(r, m, lat)
  \/ \E r \in Reqs : get_model_grid_hit(r)
  \/ \E r \in Reqs : get_model_grid_miss(r)
  \/ \E r \in Reqs : \E ds \in LatestGrids(req[r].model) \cup {None} : xarray_returns(r, ds)
  \/ \E r \in Reqs : xarray_raises(r)
  \/ \E r \in Reqs : get_tile_404(r)
  \/ \E r \in Reqs : get_tile_resolve(r)
  \/ \E r \in Reqs : get_tile_convert(r)
  \/ \E r \in Reqs : generate_tile_returns(r, <<256, 256>>)
  \/ \E r \in Reqs : generate_tile_raises(r)
  \/ \E r \in Reqs : get_herbie_point(r)
  \/ \E r \in Reqs : get_openmeteo_forecast(r)
  \/ \E r \in Reqs : openmeteo_returns(r, 1850)
  \/ \E r \in Reqs : openmeteo_raises(r)
  \/ \E r \in Reqs : get_forecast_unknown(r)

Spec == Init /\ [][Next]_vars

(***************************************************************************)
(* The tile pyramid.  One client walks every tile of the zoom levels up to *)
(* Precision + 1 over one grid; the handler is the one of Spec.             *)
(***************************************************************************)

\* Every (z, x, y) with 0 <= x, y < 2**z, for the zoom levels 0 .. Precision + 1.
TileGrid ==
  UNION {{<<z, x, y>> : x \in 0 .. Pow2(z) - 1, y \in 0 .. Pow2(z) - 1} :
           z \in 0 .. Precision + 1}

NextTiles ==
  \/ \E t \in TileGrid : ArriveTile(1, "gfs", t)
  \/ \E r \in Reqs : get_model_grid_miss(r)
  \/ \E r \in Reqs : xarray_returns(r, GfsRunA)
  \/ \E r \in Reqs : get_tile_resolve(r)
  \/ \E r \in Reqs : get_tile_convert(r)
  \/ \E r \in Reqs, canvas \in NativeSizes : generate_tile_returns(r, canvas)
  \/ \E r \in Reqs : generate_tile_raises(r)

SpecTiles == Init /\ [][NextTiles]_vars

(***************************************************************************)
(* The fields of a grid.  Clients ask for two tiles of one model while the *)
(* upstream source may hold any dataset of FieldSamples; the handler is    *)
(* the one of Spec.                                                        *)
(***************************************************************************)

\* Most fields a sampled dataset declares.
MaxFields == 2

\* Variable names of GRIB datasets: the four aliases and two other fields.
FieldNames == {"t2m", "t", "tmp", "2t", "prmsl", "unknown"}

\* The array of a sampled field: Kelvin; Celsius with one value above 200;
\* mean exactly 200; mean above 200 with one value below; pressure; a mean
\* above 473.15.
NamedValues(name) ==
  IF name = "t2m" THEN <<28000, 30000>>
  ELSE IF name = "t" THEN <<25000, 1000>>
  ELSE IF name = "tmp" THEN <<19000, 21000>>
  ELSE IF name = "2t" THEN <<15000, 25001>>
  ELSE IF name = "prmsl" THEN <<10130000, 10150000>>
  ELSE <<50000, 70000>>

\* Declaration orders: up to MaxFields distinct names, none included.
FieldOrders ==
  {o \in UNION {[1 .. n -> FieldNames] : n \in 0 .. MaxFields} :
     \A i, j \in DOMAIN o : i # j => o[i] # o[j]}

FieldSamples ==
  {Dataset([i \in DOMAIN o |-> [name |-> o[i], values |-> NamedValues(o[i])]]) :
     o \in FieldOrders}

FieldTiles == {<<0, 0, 0>>, <<1, 0, 1>>}

NextFields ==
  \/ \E r \in Reqs, t \in FieldTiles : ArriveTile(r, "gfs", t)
  \/ \E r \in Reqs : get_model_grid_hit(r)
  \/ \E r \in Reqs : get_model_grid_miss(r)
  \/ \E r \in Reqs : \E ds \in FieldSamples \cup {None} : xarray_returns(r, ds)
  \/ \E r \in Reqs : xarray_raises(r)
  \/ \E r \in Reqs : get_tile_404(r)
  \/ \E r \in Reqs : get_tile_resolve(r)
  \/ \E r \in Reqs : get_tile_convert(r)
  \/ \E r \in Reqs, canvas \in NativeSizes : generate_tile_returns(r, canvas)
  \/ \E r \in Reqs : generate_tile_raises(r)

SpecFields == Init /\ [][NextFields]_vars

(***************************************************************************)
(* Progress.  The code of a handler between two calls into Herbie or the   *)
(* renderer is straight-line Python on the thread that holds the event     *)
(* loop, and the renderer draws a finite array: each of these steps is     *)
(* taken once it can be.  Herbie(...) and H.xarray(...) are called without *)
(* a timeout (weather.py:116-120): nothing obliges them to return, so no   *)
(* fairness is assumed of xarray_returns and xarray_raises.                *)
(***************************************************************************)

NextLive ==
  \/ \E r \in Reqs : ArriveTile(r, "gfs", <<0, 0, 0>>)
  \/ \E r \in Reqs : ArriveForecast(r, "gfs", 1)
  \/ \E r \in Reqs : get_model_grid_hit(r)
  \/ \E r \in Reqs : get_model_grid_miss(r)
  \/ \E r \in Reqs : \E ds \in LatestGrids(req[r].model) \cup {None} : xarray_returns(r, ds)
  \/ \E r \in Reqs : xarray_raises(r)
  \/ \E r \in Reqs : get_tile_404(r)
  \/ \E r \in Reqs : get_tile_resolve(r)
  \/ \E r \in Reqs : get_tile_convert(r)
  \/ \E r \in Reqs, canvas \in NativeSizes : generate_tile_returns(r, canvas)
  \/ \E r \in Reqs : generate_tile_raises(r)
  \/ \E r \in Reqs : get_herbie_point(r)

\* The steps of request r that run without waiting for anything.
Handler(r) ==
  \/ get_tile_404(r)
  \/ get_tile_resolve(r)
  \/ get_tile_convert(r)
  \/ \E canvas \in NativeSizes : generate_tile_returns(r, canvas)
  \/ generate_tile_raises(r)
  \/ get_herbie_point(r)

SpecLive == Init /\ [][NextLive]_vars /\ \A r \in Reqs : WF_vars(Handler(r))

(***************************************************************************)
(* Properties                                                              *)
(***************************************************************************)

Started(r) == req[r].pc \in {"grid", "resolved", "converted", "done"}

\* C1: once a fetch for a key has returned and its result is stored, the
\* fetch collaborator is not invoked for that key again (the invocation that
\* stored the entry is the last one), and a later call is a cache hit that
\* returns the very value stored, a value the fetch returned.
C1_SecondCallServedFromCache ==
  /\ \A k \in Keys : okAt[k] # 0 => nFetch[k] = okAt[k]
  /\ \A r \in Reqs :
       req[r].how = "hit" =>
         /\ req[r].outcome = ""
         /\ Cached(Key(req[r].model))
         /\ req[r].ds = GRID_CACHE[Key(req[r].model)]
         /\ req[r].ds \in fetched[Key(req[r].model)]

\* Two calls in sequence for gfs: the first fetched a dataset, the second was
\* served from the cache, and Herbie was invoked once.
C1_Witness ==
  \E r1, r2 \in Reqs :
    /\ r1 # r2 /\ req[r1].model = "gfs" /\ req[r2].model = "gfs"
    /\ req[r1].pc = "done" /\ req[r1].how = "miss" /\ req[r1].outcome = "returned"
    /\ ~IsNone(req[r1].ds)
    /\ req[r2].pc = "done" /\ req[r2].how = "hit" /\ req[r2].ds = req[r1].ds
    /\ nFetch["gfs_latest"] = 1

C2_AfterRaise ==
  \A r \in Reqs :
    req[r].outcome = "raised" =>
      /\ Started(r) /\ req[r].ds = None
      /\ req[r].pc = "grid" => ~Cached(Key(req[r].model))
      /\ (req[r].pc = "done" /\ req[r].kind = "tile") =>
           req[r].resp = Respond(404, "application/json", "Model data not found", <<>>)

C2_Retry ==
  \A r \in Reqs :
    (/\ req[r].pc = "pending" /\ CallsGrid(r)
     /\ req'[r].pc # "pending"
     /\ ~Cached(Key(req[r].model))) =>
       /\ req'[r].pc = "fetching"
       /\ nFetch'[Key(req[r].model)] = nFetch[Key(req[r].model)] + 1

\* C2: when the fetch raises, get_model_grid returns None (the tile answer is
\* the fixed 404, carrying nothing of the exception), the key has no cache
\* entry when the call returns, and every call that finds no entry for its
\* key invokes the fetch collaborator (again).
C2_FailureNotCached == [][C2_Retry]_vars /\ []C2_AfterRaise

\* A call whose fetch raised, then a second call for the same key that
\* fetched again.
C2_Witness ==
  \E r1, r2 \in Reqs :
    /\ r1 # r2 /\ req[r1].model = req[r2].model
    /\ req[r1].pc = "done" /\ req[r1].outcome = "raised"
    /\ req[r2].how = "miss" /\ req[r2].pc = "fetching"
    /\ nFetch[Key(req[r1].model)] = 2

\* C3: a fetch that returns no data (None) stores no cache entry, and no
\* later call is served an empty result from the cache.
C3_NoDataNotCached ==
  /\ \A k \in DOMAIN GRID_CACHE : ~IsNone(GRID_CACHE[k])
  /\ \A r \in Reqs : req[r].how = "hit" => ~IsNone(req[r].ds)

\* C4: a tile request whose grid is unavailable (get_model_grid returned
\* None) runs none of field resolution, unit normalization and rendering,
\* and its only answer is 404 without an image.
C4_Unavailable404 ==
  \A r \in Reqs :
    (req[r].kind = "tile" /\ Started(r) /\ req[r].ds = None) =>
      /\ req[r].did = {}
      /\ req[r].pc \in {"grid", "done"}
      /\ req[r].pc = "done" =>
           /\ req[r].resp.status = 404
           /\ req[r].resp.media # "image/png"

\* A tile request for an uncached model whose fetch raised, answered 404.
C4_Witness ==
  \E r \in Reqs :
    /\ req[r].kind = "tile" /\ req[r].pc = "done"
    /\ req[r].how = "miss" /\ req[r].outcome = "raised"
    /\ req[r].resp.status = 404

InHandler(r) == req[r].pc \in {"fetching", "grid", "resolved", "converted", "openmeteo"}

C6_StoredIsFetched ==
  /\ \A m \in HerbieModels :
       Cached(Key(m)) =>
         /\ GRID_CACHE[Key(m)] \in fetched[Key(m)]
         /\ GRID_CACHE[Key(m)] \in LatestGrids(m) \cup {None}
  /\ \A r \in Reqs :
       (CallsGrid(r) /\ Started(r) /\ ~IsNone(req[r].ds)) =>
         req[r].ds \in fetched[Key(req[r].model)]

\* A first fetch for gfs raised, a second returned run B: the entry is run B.
C6_Witness ==
  \E r1, r2 \in Reqs :
    /\ req[r1].model = "gfs" /\ req[r2].model = "gfs"
    /\ req[r1].outcome = "raised" /\ req[r1].pc = "done"
    /\ req[r2].outcome = "returned" /\ req[r2].ds = GfsRunB
    /\ Cached("gfs_latest") /\ GRID_CACHE["gfs_latest"] = GfsRunB

\* C7: the cache is a map with one entry per model key, and no step of a
\* tile or point-forecast request removes an entry.
C7_NeverEvicted ==
  /\ [][\A k \in DOMAIN GRID_CACHE : k \in DOMAIN GRID_CACHE']_vars
  /\ [](DOMAIN GRID_CACHE \subseteq Keys)

\* An entry has outlived a later point-forecast request that hit it.
C7_Witness ==
  \E r1, r2 \in Reqs :
    /\ req[r1].kind = "tile" /\ req[r1].pc = "done" /\ req[r1].outcome = "returned"
    /\ req[r2].kind = "forecast" /\ req[r2].pc = "done" /\ req[r2].how = "hit"
    /\ Cached(Key(req[r2].model))

Entry(cache, k) == IF k \in DOMAIN cache THEN <<cache[k]>> ELSE <<>>

C8_Step ==
  /\ \A k \in Keys :
       Entry(GRID_CACHE', k) # Entry(GRID_CACHE, k) =>
         \E r \in Reqs :
           /\ Key(req[r].model) = k
           /\ req[r].pc = "fetching" /\ req'[r].outcome = "returned"
  /\ \A r \in Reqs :
       /\ (req[r].pc = "pending" /\ req'[r].pc # "pending") => GRID_CACHE' = GRID_CACHE
       /\ (req[r].pc = "fetching" /\ req'[r].outcome = "raised") => GRID_CACHE' = GRID_CACHE
       /\ (req[r].pc = "fetching" /\ req'[r].outcome = "returned") =>
            Entry(GRID_CACHE', Key(req[r].model)) = <<req'[r].ds>>
       /\ (Started(r) /\ req'[r] # req[r]) => GRID_CACHE' = GRID_CACHE

\* C8: a call for key k changes at most the entry of k: a hit and a miss whose
\* fetch raises leave the cache as it is, a miss whose fetch returns writes
\* the entry of k in the one step of its return, and no step of any request
\* changes the entry of another key.
C8_OnlyOwnKeyWritten == [][C8_Step]_vars

\* Both keys are cached: each was written while the other was left alone.
C8_Witness ==
  /\ Cached("gfs_latest") /\ Cached("hrrr_latest")
  /\ \E r \in Reqs : req[r].model = "hrrr" /\ req[r].outcome = "returned"

NormalizedOnce(values) == IF MeanAbove200(values) THEN Minus27315(values) ELSE values

\* C9: a tile request that has normalized its field leaves the cached
\* dataset equal to the one it was given, a dataset the fetch returned, and
\* its field differs from the fetched one by a single application of the
\* offset (or not at all).
C9_CachedDatasetReadOnly ==
  \A r \in Reqs :
    (req[r].kind = "tile" /\ "normalize" \in req[r].did) =>
      /\ Cached(Key(req[r].model))
      /\ GRID_CACHE[Key(req[r].model)] = req[r].ds
      /\ req[r].ds \in LatestGrids(req[r].model)
      /\ req[r].var.values = NormalizedOnce(ResolveField(req[r].ds).values)

\* Two tiles of the Kelvin dataset rendered one after the other, the second
\* from the cache: both carry 6.85 and 26.85.
C9_Witness ==
  \E r1, r2 \in Reqs :
    /\ r1 # r2
    /\ req[r1].pc = "done" /\ req[r1].resp.status = 200 /\ req[r1].how = "miss"
    /\ req[r2].pc = "done" /\ req[r2].resp.status = 200 /\ req[r2].how = "hit"
    /\ req[r1].ds = GfsRunA /\ req[r2].ds = GfsRunA
    /\ req[r1].var.values = <<685, 2685>> /\ req[r2].var.values = <<685, 2685>>

\* TileCoordinate invariant of the data model: z >= 0, x and y in [0, 2^z).
InRange(z, x, y) ==
  /\ z >= 0
  /\ x >= 0 /\ x < Pow2(z)
  /\ y >= 0 /\ y < Pow2(z)

\* C10: a tile request whose coordinates are out of range is never handed to
\* the renderer, is never answered 200, and is answered as a client error.
C10_OutOfRangeRejected ==
  \A r \in Reqs :
    (req[r].kind = "tile" /\ ~InRange(req[r].z, req[r].x, req[r].y)) =>
      /\ "render" \notin req[r].did
      /\ req[r].resp.status # 200
      /\ req[r].pc = "done" => req[r].resp.status \in 400 .. 499

\* A tile request for which generate_tile ran.
Rendered(r) == req[r].kind = "tile" /\ "render" \in req[r].did

\* A tile request that went through field resolution, with or without success.
Resolving(r) == req[r].kind = "tile" /\ "resolve" \in req[r].did

\* C11: on a dataset that declares no field at all resolution fails and the
\* request is answered 500, neither 404 nor 200; on a dataset with at least
\* one field, whatever its names, resolution yields one of its fields.
C11_NoFieldFound ==
  \A r \in Reqs :
     Resolving(r) =>
        /\ ~IsNone(req[r].ds)
        /\ (Len(req[r].ds.data_vars) = 0 =>
              /\ req[r].pc = "done"
              /\ req[r].resp.status = 500
              /\ req[r].var = NoVar
              /\ req[r].did = {"resolve"})
        /\ (Len(req[r].ds.data_vars) > 0 =>
              /\ req[r].var.name \in Names(req[r].ds)
              /\ req[r].resp # Unhandled)

\* The source returned a dataset without fields and the tile was answered 500.
C11_Witness ==
  \E r \in Reqs :
     /\ Resolving(r)
     /\ req[r].ds = Dataset(<<>>)
     /\ req[r].resp.status = 500

\* C12: once a field is resolved the request ends in one of two ways: 200
\* with an image/png body after resolution, normalization and rendering all
\* succeeded, or 500 with the detail 'Tile generation failed'; the latter
\* whenever generate_tile raised.
C12_FailureIs500 ==
  \A r \in Reqs :
     req[r].kind = "tile" /\ req[r].pc = "done" =>
        /\ (req[r].resp.status = 200 =>
              /\ req[r].did = {"resolve", "normalize", "render"}
              /\ req[r].resp.media = "image/png"
              /\ req[r].canvas \in NativeSizes
              /\ plots[TileInput(r)] = req[r].canvas)
        /\ (req[r].var # NoVar =>
              \/ req[r].resp.status = 200
              \/ req[r].resp = Respond(500, "application/json", "Tile generation failed", <<>>))
        /\ (Rendered(r) /\ plots[TileInput(r)] = NoCanvas =>
              req[r].resp = Respond(500, "application/json", "Tile generation failed", <<>>))

\* A field was resolved and normalized, generate_tile raised, the answer is
\* the fixed 500.
C12_Witness ==
  \E r \in Reqs :
     /\ req[r].did = {"resolve", "normalize", "render"}
     /\ plots[TileInput(r)] = NoCanvas
     /\ req[r].resp.status = 500
     /\ req[r].resp.detail = "Tile generation failed"

\* The alias list of get_tile, in priority order.
Aliases == <<"t2m", "t", "tmp", "2t">>

\* C13: the resolved field is the one named by the first alias of
\* ['t2m', 't', 'tmp', '2t'] the dataset has, whatever the order the dataset
\* declares its fields in; the first declared field is taken only when the
\* dataset has none of the four.
C13_AliasPriority ==
  \A r \in Reqs :
     Resolving(r) /\ req[r].var # NoVar =>
        LET ds == req[r].ds
            present == {i \in DOMAIN Aliases : Aliases[i] \in Names(ds)}
            first == CHOOSE i \in present : \A j \in present : i <= j
        IN /\ present # {} => req[r].var.name = Aliases[first]
           /\ present = {} => req[r].var.name = ds.data_vars[1].name
           /\ req[r].pc = "resolved" =>
                \E i \in DOMAIN ds.data_vars : req[r].var = ds.data_vars[i]

\* The dataset declares 'tmp' before 't' and 't' was taken.
C13_Witness ==
  \E r \in Reqs :
     /\ Resolving(r)
     /\ Len(req[r].ds.data_vars) = 2
     /\ req[r].ds.data_vars[1].name = "tmp"
     /\ req[r].ds.data_vars[2].name = "t"
     /\ req[r].var.name = "t"

\* The array of the resolved field as the dataset the handler was given holds it.
Original(r) == Field(req[r].ds, req[r].var.name).values

\* C14: after normalization the field is the original with 273.15 taken off
\* every value when the original's mean is strictly above 200, and the
\* original itself otherwise, a mean of exactly 200 included; single values
\* above or below 200 decide nothing.
C14_KelvinHeuristic ==
  \A r \in Reqs :
     req[r].kind = "tile" /\ "normalize" \in req[r].did =>
        LET orig == Original(r)
        IN /\ Len(req[r].var.values) = Len(orig)
           /\ IF Sum(orig) > 200 * 100 * Len(orig)
              THEN \A i \in DOMAIN orig : req[r].var.values[i] = orig[i] - 27315
              ELSE req[r].var.values = orig

\* A field whose mean is exactly 200 went through normalization unchanged.
C14_Witness ==
  \E r \in Reqs :
     /\ "normalize" \in req[r].did
     /\ Original(r) = <<19000, 21000>>
     /\ req[r].var.values = <<19000, 21000>>

\* C15: for every zoom z >= 0 and every x, y in [0, 2**z), tile_bounds gives
\* a box with minx < maxx and miny < maxy.
C15_BoundsStrictlyOrdered ==
  \A r \in Reqs :
     Rendered(r) /\ req[r].z >= 0 /\ InRange(req[r].z, req[r].x, req[r].y) =>
        /\ req[r].bounds.minx < req[r].bounds.maxx
        /\ req[r].bounds.miny < req[r].bounds.maxy

\* C16: the east edge of tile (x, y, z) is exactly the west edge of tile
\* (x+1, y, z): no gap and no overlap between horizontal neighbours.
C16_NeighboursShareEdge ==
  \A r \in Reqs :
     Rendered(r) =>
        req[r].bounds.maxx = tile_bounds(req[r].x + 1, req[r].y, req[r].z).minx

\* The west half of the world at zoom 1 was drawn: it ends on the meridian,
\* where the east half begins.
C16_Witness ==
  \E r \in Reqs :
     /\ Rendered(r) /\ req[r].z = 1 /\ req[r].x = 0
     /\ req[r].bounds.maxx = 0 /\ req[r].bounds.minx < 0
     /\ tile_bounds(1, req[r].y, 1).minx = 0

\* S = 2*pi*6378137 / 2 in the units of zoom z.
HalfCircumference(z) == (Res * Pow2(z + 8)) \div 2

\* C17: tile (0, 0, 0) is the whole square (-S, -S, +S, +S); at every zoom
\* the tiles of column 0 start at -S and those of column 2**z - 1 end at +S.
C17_WorldExtent ==
  \A r \in Reqs :
     Rendered(r) /\ req[r].z >= 0 =>
        /\ (req[r].z = 0 /\ req[r].x = 0 /\ req[r].y = 0 =>
              req[r].bounds = [minx |-> 0 - HalfCircumference(0),
                               miny |-> 0 - HalfCircumference(0),
                               maxx |-> HalfCircumference(0),
                               maxy |-> HalfCircumference(0)])
        /\ (req[r].x = 0 => req[r].bounds.minx = 0 - HalfCircumference(req[r].z))
        /\ (req[r].x = Pow2(req[r].z) - 1 =>
              req[r].bounds.maxx = HalfCircumference(req[r].z))

\* The last column of zoom 2 was drawn and ends at +S, S not zero.
C17_Witness ==
  \E r \in Reqs :
     /\ Rendered(r) /\ req[r].z = 2 /\ req[r].x = 3
     /\ req[r].bounds.maxx = HalfCircumference(2)
     /\ HalfCircumference(2) > 0

\* C18: every image generate_tile returns is 256 x 256 whatever the size of
\* the canvas the renderer wrote, and once there is a canvas the resize and
\* the encoding succeed: the request is answered with the image.
C18_Always256 ==
  \A r \in Reqs :
     req[r].kind = "tile" =>
        /\ (req[r].resp.status = 200 => req[r].img.size = <<256, 256>>)
        /\ (req[r].canvas # NoCanvas =>
              req[r].resp.status = 200 /\ req[r].img.size = <<256, 256>>)

\* A canvas that was not 256 x 256 came back as a 256 x 256 image.
C18_Witness ==
  \E r \in Reqs :
     /\ req[r].resp.status = 200
     /\ req[r].canvas = <<247, 256>>
     /\ req[r].img.size = <<256, 256>>

\* Requests for the same tile of the same model that were both given a grid.
SameTile(r1, r2) ==
  /\ req[r1].kind = "tile" /\ req[r2].kind = "tile"
  /\ req[r1].model = req[r2].model
  /\ <<req[r1].z, req[r1].x, req[r1].y>> = <<req[r2].z, req[r2].x, req[r2].y>>
  /\ ~IsNone(req[r1].ds) /\ ~IsNone(req[r2].ds)

C19_SameResponse ==
  \A r1, r2 \in Reqs :
     SameTile(r1, r2) /\ req[r1].pc = "done" /\ req[r2].pc = "done" =>
        /\ req[r1].resp = req[r2].resp
        /\ req[r1].img = req[r2].img

C19_CacheUntouched ==
  \A r \in Reqs :
     req[r].kind = "tile" /\ Cached(Key(req[r].model)) /\ req'[r] # req[r] =>
        GRID_CACHE' = GRID_CACHE

\* C19: once the grid of a model is cached, requests for the same
\* (model, z, x, y), however many, in whatever order and whatever other
\* tiles are requested in between, are all answered with the same response
\* and the same image, and no step of a tile request changes the cache.
C19_Idempotent == []C19_SameResponse /\ [][C19_CacheUntouched]_vars

\* The same tile was asked for twice, the second time from the cache, and
\* both requests were answered with the same image.
C19_Witness ==
  \E r1, r2 \in Reqs :
     /\ r1 # r2 /\ SameTile(r1, r2)
     /\ req[r1].how = "miss" /\ req[r2].how = "hit"
     /\ req[r1].resp.status = 200 /\ req[r2].resp.status = 200
     /\ req[r1].img = req[r2].img /\ req[r1].img # NoImg

\* While H.xarray has not come back the request has no response.
C20_Waiting ==
  \A r \in Reqs : req[r].pc = "fetching" => req[r].resp = NoResp

\* Nothing but the return or the exception of the fetch ends the wait.
C20_OnlyFetchEndsWait ==
  \A r \in Reqs :
     req[r].pc = "fetching" /\ req'[r].pc # "fetching" =>
        /\ req'[r].pc = "grid"
        /\ req'[r].outcome \in {"returned", "raised"}
        /\ req'[r].resp = NoResp

\* C20: no timeout bounds the fetch: a request whose fetch never comes back
\* stays without a response for ever, and nothing but the fetch's own return
\* or exception ends its wait; a request whose fetch returned or raised, and
\* a request served from the cache, is eventually answered 200, 404 or 500.
C20_NoTimeout ==
  /\ []C20_Waiting
  /\ [][C20_OnlyFetchEndsWait]_vars
  /\ \A r \in Reqs :
       /\ <>[](req[r].pc = "fetching") => [](req[r].resp = NoResp)
       /\ (req[r].pc = "grid"
              /\ (req[r].outcome \in {"returned", "raised"} \/ req[r].how = "hit"))
            ~> (req[r].pc = "done" /\ req[r].resp.status \in {200, 404, 500})

\* A request was answered 404 after its fetch raised, and a later request is
\* inside a fetch, without a response.
C20_Witness ==
  \E r1, r2 \in Reqs :
     /\ req[r1].outcome = "raised" /\ req[r1].pc = "done" /\ req[r1].resp.status = 404
     /\ req[r2].pc = "fetching" /\ req[r2].resp = NoResp

\* Request r is inside a slow call: the upstream fetch or the renderer.
InSlowCall(r) ==
  \/ req[r].pc = "fetching"
  \/ req[r].kind = "tile" /\ req[r].pc = "converted"

\* C21: the fetch and the rasterization do not block the other handlers:
\* while one request is inside a fetch or a render, a tile request for a
\* model whose grid is already cached can take its next step.
C21_LightweightNotBlocked ==
  \A r1, r2 \in Reqs :
     /\ InSlowCall(r1)
     /\ req[r2].pc = "pending" /\ req[r2].kind = "tile"
     /\ Cached(Key(req[r2].model))
     => ENABLED get_model_grid_hit(r2)

\* C22: a forecast request whose upstream source failed (no grid for a
\* Herbie model, no answer from Open-Meteo) is answered 504 'Upstream service
\* failed', never 200 with an empty forecast; a model name outside the known
\* ones is answered with an error and no data.
C22_UpstreamFailureIs504 ==
  \A r \in Reqs :
     req[r].kind = "forecast" /\ req[r].pc = "done" =>
        /\ (req[r].model \in HerbieModels /\ IsNone(req[r].ds) =>
              /\ req[r].resp.status = 504
              /\ req[r].resp.detail = "Upstream service failed")
        /\ (req[r].model = "openmeteo" /\ req[r].resp.data = <<>> =>
              req[r].resp.status = 504)
        /\ (req[r].model \notin HerbieModels \cup {"openmeteo"} =>
              req[r].resp.status >= 400 /\ req[r].resp.data = <<>>)

====
